---- MODULE Spec2Model ----
(***************************************************************************)
(* A model of DLWP's TimeSeriesEstimator (DLWP/model/extensions.py) and of *)
(* the preprocessing routines delete_nan_samples and                       *)
(* Preprocessor.data_to_samples (DLWP/model/preprocessing.py).             *)
(*                                                                         *)
(* Arrays are functions over 1-based positions (Python position q is       *)
(* position q+1 here).  The lat/lon axes are carried through every         *)
(* operation untouched by the code and are folded into one grid cell.      *)
(* Array entries are symbolic values, tagged by where they come from:      *)
(*   <<"gen", c, tp, k>>      generator predictor data, sample coordinate  *)
(*                            c, time position tp, channel k               *)
(*   <<"out", s, i, tp, k>>   model output of loop iteration s, sample     *)
(*                            position i, time position tp, channel k      *)
(*   <<"mean", tp, k>>        mean over the sample axis of the predictors  *)
(*   <<"sol", c>>             insolation at time c                         *)
(*   <<"nan">>                a missing value                              *)
(***************************************************************************)
EXTENDS Integers, Sequences, FiniteSets, TLC

VARIABLES
    gen,        \* the generator (and model) the estimator was built from
    est,        \* the estimator's fields set by __init__
    pc,         \* position of predict(): ready, model, reindex, impute,
                \* insolation, feedback, assemble, done, error
    args,       \* the arguments of the running predict() call
    loc,        \* predict()'s locals: keep_inputs, es, in_times, s, p_mean
    p_da,       \* the rolling input buffer: [sample, values]
    r_da,       \* the relabelled model output: [sample, values]
    result,     \* the forecast accumulator, then the returned array
    calls,      \* how often generate() and model.predict() were called
    dns,        \* delete_nan_samples: the call's state
    pp          \* Preprocessor.data_to_samples: the call's state

vars == <<gen, est, pc, args, loc, p_da, r_da, result, calls, dns, pp>>

----------------------------------------------------------------------------
(* Bounds of the model.                                                    *)

MaxTimeSteps == 2       \* input and output time steps of a model: 1..MaxTimeSteps
MaxSteps == 2           \* predict(steps): steps <= MaxSteps
MaxNSample == 3         \* generator._n_sample: 1..MaxNSample
MaxDt == 2              \* spacing of the sample coordinate: 1..MaxDt

----------------------------------------------------------------------------
(* Generic helpers.                                                        *)

NaN == <<"nan">>

Range(seq) == {seq[q] : q \in DOMAIN seq}

Min(a, b) == IF a <= b THEN a ELSE b

\* [x for x in seq if Keep(x)]: a list comprehension with a filter
RECURSIVE Filter(_, _)
Filter(seq, keep) ==
    IF seq = <<>> THEN <<>>
    ELSE (IF Head(seq) \in keep THEN <<Head(seq)>> ELSE <<>>) \o Filter(Tail(seq), keep)

\* np.arange(start, stop, step) for step > 0: start, start+step, ... below stop
RECURSIVE Arange(_, _, _)
Arange(start, stop, step) ==
    IF start >= stop THEN <<>>
    ELSE <<start>> \o Arange(start + step, stop, step)

\* the position of label x in the coordinate seq (label-based .loc indexing)
PosOf(seq, x) == CHOOSE q \in DOMAIN seq : seq[q] = x

\* str() of a natural number
Digit(d) == <<"0", "1", "2", "3", "4", "5", "6", "7", "8", "9">>[d + 1]

RECURSIVE NatStr(_)
NatStr(n) == IF n < 10 THEN Digit(n) ELSE NatStr(n \div 10) \o Digit(n % 10)

EmptyDict == [k \in {} |-> <<>>]

Dict1(k, v) == [x \in {k} |-> v]

Dict2(k1, v1, k2, v2) == [x \in {k1, k2} |-> IF x = k1 THEN v1 ELSE v2]

----------------------------------------------------------------------------
(* The datasets and generators the estimator is built from.                *)

\* the 'varlev' coordinate of a dataset using compound labels
DsVarlev == <<"z/500", "t/850">>

\* the 'variable' and 'level' coordinates of a dataset using separate axes
DsVariable == <<"z", "t">>

DsLevel == <<500, 850>>

\* (output, input) selections of a SeriesDataGenerator on a varlev dataset
VarlevSelections ==
    { <<EmptyDict, EmptyDict>>,
      <<Dict1("varlev", <<"t/850">>), EmptyDict>>,
      <<EmptyDict, Dict1("varlev", <<"z/500">>)>>,
      <<Dict1("varlev", <<"t/850", "z/500">>), Dict1("varlev", <<"z/500", "t/850">>)>>,
      <<Dict1("varlev", <<"t/850">>), Dict1("varlev", <<"z/500">>)>> }

\* (output, input) selections of a SeriesDataGenerator on a variable/level dataset
VariableLevelSelections ==
    { <<EmptyDict, EmptyDict>>,
      <<Dict1("variable", <<"t">>), EmptyDict>>,
      <<Dict1("level", <<850>>), Dict1("variable", <<"z">>)>>,
      <<Dict2("variable", <<"t", "z">>, "level", <<850, 500>>), Dict1("level", <<500>>)>>,
      <<Dict2("variable", <<"t">>, "level", <<850>>), Dict2("variable", <<"z">>, "level", <<500>>)>> }

\* A SeriesDataGenerator: user-specified selections and time steps.
SeriesGenerators ==
    { [is_series |-> TRUE, uses_varlev |-> uv, has_targets |-> FALSE,
       add_insolation |-> sol, output_sel |-> sel[1], input_sel |-> sel[2],
       input_time_steps |-> it, output_time_steps |-> ot,
       n_sample |-> n, dt |-> d] :
        uv \in BOOLEAN, sol \in BOOLEAN,
        sel \in VarlevSelections \cup VariableLevelSelections,
        it \in 1..MaxTimeSteps, ot \in 1..MaxTimeSteps,
        n \in 1..MaxNSample, d \in 1..MaxDt }

\* A DataGenerator or SmartDataGenerator: no selections, no insolation, and the
\* model's time_dim for both the input and the output time steps.
PlainGenerators ==
    { [is_series |-> FALSE, uses_varlev |-> uv, has_targets |-> ht,
       add_insolation |-> FALSE, output_sel |-> EmptyDict, input_sel |-> EmptyDict,
       input_time_steps |-> td, output_time_steps |-> td,
       n_sample |-> n, dt |-> d] :
        uv \in BOOLEAN, ht \in BOOLEAN, td \in 1..MaxTimeSteps,
        n \in 1..MaxNSample, d \in 1..MaxDt }

\* the selections fit the dataset's convention
Generators ==
    { g \in SeriesGenerators :
        <<g.output_sel, g.input_sel>> \in
            (IF g.uses_varlev THEN VarlevSelections ELSE VariableLevelSelections) }
    \cup PlainGenerators

\* generator.ds.coords[name]
DsCoord(name) ==
    CASE name = "varlev" -> DsVarlev
      [] name = "variable" -> DsVariable
      [] name = "level" -> DsLevel

\* generator.ds.sample[:generator._n_sample]
DsSample(g) == [i \in 1..g.n_sample |-> (i - 1) * g.dt]

\* generator.ds.sample[q] at (1-based) position q of the whole dataset
DsSampleAt(g, q) == (q - 1) * g.dt

----------------------------------------------------------------------------
(* TimeSeriesEstimator.__init__                                            *)

\* '/'.join([v, str(l)])
Label(v, l) == v \o "/" \o NatStr(l)

\* a flattening in which the level varies slowest
MeshgridPairs_LevelMajor(variable, level) ==
    [q \in 1..(Len(variable) * Len(level)) |->
        <<variable[((q - 1) % Len(variable)) + 1], level[((q - 1) \div Len(variable)) + 1]>>]

\* lev, var = np.meshgrid(level, variable); zip(var.flatten(), lev.flatten()):
\* both arrays have shape (len(variable), len(level)) and are flattened row by row
MeshgridPairs(variable, level) ==
    [q \in 1..(Len(variable) * Len(level)) |->
        <<variable[((q - 1) \div Len(level)) + 1], level[((q - 1) % Len(level)) + 1]>>]

\* the compound labels of a selection of variables and levels
CompoundLabels(variable, level) ==
    [q \in 1..(Len(variable) * Len(level)) |->
        Label(MeshgridPairs(variable, level)[q][1], MeshgridPairs(variable, level)[q][2])]

\* ds.targets.coords[name] and ds.predictors.coords[name]: the variables of a
\* dataset share the coordinate of a dimension
TargetsCoord(name) == DsCoord(name)

PredictorsCoord(name) == DsCoord(name)

\* a user-specified selection, or the dataset's coordinate when it names none
SelOrAll(sel, name) == IF name \in DOMAIN sel THEN sel[name] ELSE DsCoord(name)

\* "Find the outputs we keep": self._output_sel before the compound labels
OutputSelDict(g) ==
    IF g.uses_varlev
    THEN IF g.is_series
         THEN IF g.output_sel = EmptyDict
              THEN Dict1("varlev", DsCoord("varlev"))
              ELSE g.output_sel
         ELSE IF g.has_targets
              THEN Dict1("varlev", TargetsCoord("varlev"))
              ELSE Dict1("varlev", DsCoord("varlev"))
    ELSE IF g.is_series
         THEN Dict2("variable", SelOrAll(g.output_sel, "variable"),
                    "level", SelOrAll(g.output_sel, "level"))
         ELSE IF g.has_targets
              THEN Dict2("variable", TargetsCoord("variable"), "level", TargetsCoord("level"))
              ELSE Dict2("variable", DsCoord("variable"), "level", DsCoord("level"))

\* "Find the inputs we need": self._input_sel before the compound labels
InputSelDict(g) ==
    IF g.uses_varlev
    THEN IF g.is_series
         THEN IF g.input_sel = EmptyDict
              THEN Dict1("varlev", DsCoord("varlev"))
              ELSE g.input_sel
         ELSE Dict1("varlev", PredictorsCoord("varlev"))
    ELSE IF g.is_series
         THEN Dict2("variable", SelOrAll(g.input_sel, "variable"),
                    "level", SelOrAll(g.input_sel, "level"))
         ELSE Dict2("variable", PredictorsCoord("variable"),
                    "level", PredictorsCoord("level"))

\* the dictionary with its 'varlev' entry: given, or flattened variable/level
WithVarlev(g, d) ==
    IF g.uses_varlev THEN d
    ELSE [k \in {"variable", "level", "varlev"} |->
            IF k = "varlev" THEN CompoundLabels(d["variable"], d["level"]) ELSE d[k]]

\* self._output_sel
OutputSel(g) == WithVarlev(g, OutputSelDict(g))

\* an overlap that keeps every output label
Overlap_Unfiltered(output, input) == output

\* [v for v in output if v in input]
Overlap(output, input) == Filter(output, Range(input))

\* self._outputs_in_inputs, computed before 'SOL' joins the input selection
OutputsInInputs(g) ==
    [k \in DOMAIN OutputSel(g) |->
        Overlap(OutputSel(g)[k], WithVarlev(g, InputSelDict(g))[k])]

\* self._input_sel, with 'SOL' appended to the compound labels for insolation
InputSel(g) ==
    [k \in DOMAIN WithVarlev(g, InputSelDict(g)) |->
        IF k = "varlev" /\ g.add_insolation
        THEN Append(WithVarlev(g, InputSelDict(g))[k], "SOL")
        ELSE WithVarlev(g, InputSelDict(g))[k]]

\* the estimator __init__ builds from generator (and model) g
Estimator(g) ==
    [ add_insolation |-> g.add_insolation,
      uses_varlev |-> g.uses_varlev,
      dt |-> DsSampleAt(g, 2) - DsSampleAt(g, 1),
      output_sel |-> OutputSel(g),
      input_sel |-> InputSel(g),
      outputs_in_inputs |-> OutputsInInputs(g),
      input_time_steps |-> g.input_time_steps,
      output_time_steps |-> g.output_time_steps ]

----------------------------------------------------------------------------
(* TimeSeriesEstimator.predict: the effective step and the data            *)

\* a check that lets steps = 0 through
StepsInvalid_Negative(steps) == steps < 0

\* int(steps) < 1: the argument check that opens predict()
StepsInvalid(steps) == steps < 1

\* keep_inputs: the model returns no more time steps than it takes
KeepInputs(e) == e.output_time_steps <= e.input_time_steps

\* an effective step that ignores prefer_first_times
EffectiveStep_AlwaysOutput(e, prefer_first_times) == e.output_time_steps

\* es: the effective forward time steps of one iteration
EffectiveStep(e, prefer_first_times) ==
    IF e.output_time_steps <= e.input_time_steps
    THEN e.output_time_steps
    ELSE IF prefer_first_times THEN e.input_time_steps ELSE e.output_time_steps

\* in_times: the time_step coordinate of the input buffer
InTimes(e, prefer_first_times) ==
    [q \in 1..e.input_time_steps |->
        IF e.output_time_steps <= e.input_time_steps
        THEN (q - 1) - (e.input_time_steps - e.output_time_steps)
        ELSE IF prefer_first_times
             THEN q - 1
             ELSE (q - 1) + (e.output_time_steps - e.input_time_steps)]

\* p of generator.generate([]), reshaped to (sample, time_step, channel)
GeneratePredictors(g, e) ==
    [i \in 1..g.n_sample |->
        [tp \in 1..e.input_time_steps |->
            [k \in 1..Len(e.input_sel["varlev"]) |-> <<"gen", DsSample(g)[i], tp, k>>]]]

\* p.mean(axis=0)
SampleMean(e) ==
    [tp \in 1..e.input_time_steps |->
        [k \in 1..Len(e.input_sel["varlev"]) |-> <<"mean", tp, k>>]]

\* np.full((steps,) + t.shape, np.nan)
EmptyResult(g, e, steps) ==
    [q \in 1..steps |->
        [i \in 1..g.n_sample |->
            [tp \in 1..e.output_time_steps |->
                [k \in 1..Len(e.output_sel["varlev"]) |-> NaN]]]]

\* model.predict(...) in iteration s (0-based), reshaped to (sample, time_step, channel)
ModelPredict(g, e, s) ==
    [i \in 1..g.n_sample |->
        [tp \in 1..e.output_time_steps |->
            [k \in 1..Len(e.output_sel["varlev"]) |-> <<"out", s, i, tp, k>>]]]

\* the sample coordinate given to the relabelled output r_da
OutputSample(g, e, es) == [i \in 1..g.n_sample |-> DsSample(g)[i] + es * e.dt]

\* a re-index that only replaces the sample coordinate
Reindex_Relabel(buf, new, e) == [sample |-> new, values |-> buf.values]

\* p_da.reindex(sample=new, method=None): the entry of each new coordinate is the
\* old entry at that coordinate, or all missing where the old index has none
Reindex(buf, new, e) ==
    [sample |-> new,
     values |-> [i \in DOMAIN new |->
        IF new[i] \in Range(buf.sample)
        THEN buf.values[PosOf(buf.sample, new[i])]
        ELSE [tp \in 1..e.input_time_steps |->
                [k \in 1..Len(e.input_sel["varlev"]) |-> NaN]]]]

\* the positions a[-m:] selects of an axis of length n
LastPositions(n, m) == {q \in 1..n : q > n - m}

\* the mean written to the last es time steps of every sample
ImputeValues_TimeSteps(buf, mean, es) ==
    [i \in DOMAIN buf.values |->
        [tp \in DOMAIN buf.values[i] |->
            IF tp \in LastPositions(Len(buf.values[i]), es)
            THEN mean[tp] ELSE buf.values[i][tp]]]

\* p_da[-es:] = np.concatenate([p_mean[np.newaxis, ...]] * es)
ImputeValues(buf, mean, es) ==
    [i \in DOMAIN buf.values |->
        IF i \in LastPositions(Len(buf.values), es) THEN mean ELSE buf.values[i]]

\* p_da.loc[{'varlev': 'SOL'}][-es:] = insolation of the sample times + n * dt
InsolationValues(buf, e, es) ==
    [i \in DOMAIN buf.values |->
        [tp \in 1..e.input_time_steps |->
            [k \in 1..Len(e.input_sel["varlev"]) |->
                IF /\ i \in LastPositions(Len(buf.values), es)
                   /\ k = PosOf(e.input_sel["varlev"], "SOL")
                THEN <<"sol", buf.sample[i] + (tp - 1) * e.dt>>
                ELSE buf.values[i][tp][k]]]]

\* The output time position fed back to input time position tp, 0 for none:
\* keep_inputs writes the last es input positions from all the output's; the
\* discard modes write every input position from the output's first or last ones.
FeedbackSource(e, es, prefer_first_times, tp) ==
    IF e.output_time_steps <= e.input_time_steps
    THEN IF tp \in LastPositions(e.input_time_steps, es)
         THEN tp - (e.input_time_steps - es) ELSE 0
    ELSE IF prefer_first_times THEN tp
         ELSE tp + (e.output_time_steps - e.input_time_steps)

\* a feedback that leaves an imputed entry as it is
FeedbackValues_KeepImputed(buf, out, e, es, prefer_first_times) ==
    [i \in DOMAIN buf.values |->
        [tp \in 1..e.input_time_steps |->
            [k \in 1..Len(e.input_sel["varlev"]) |->
                IF /\ e.input_sel["varlev"][k] \in Range(e.outputs_in_inputs["varlev"])
                   /\ FeedbackSource(e, es, prefer_first_times, tp) # 0
                   /\ buf.values[i][tp][k][1] # "mean"
                THEN out.values[i][FeedbackSource(e, es, prefer_first_times, tp)]
                               [PosOf(e.output_sel["varlev"], e.input_sel["varlev"][k])]
                ELSE buf.values[i][tp][k]]]]

\* a feedback that pairs the channels by position instead of by label
FeedbackValues_ByPosition(buf, out, e, es, prefer_first_times) ==
    [i \in DOMAIN buf.values |->
        [tp \in 1..e.input_time_steps |->
            [k \in 1..Len(e.input_sel["varlev"]) |->
                IF /\ k <= Len(e.output_sel["varlev"])
                   /\ FeedbackSource(e, es, prefer_first_times, tp) # 0
                THEN out.values[i][FeedbackSource(e, es, prefer_first_times, tp)][k]
                ELSE buf.values[i][tp][k]]]]

\* p_da.loc[{'varlev': overlap, ...}] = r_da.loc[{'varlev': overlap}][...]
FeedbackValues(buf, out, e, es, prefer_first_times) ==
    [i \in DOMAIN buf.values |->
        [tp \in 1..e.input_time_steps |->
            [k \in 1..Len(e.input_sel["varlev"]) |->
                IF /\ e.input_sel["varlev"][k] \in Range(e.outputs_in_inputs["varlev"])
                   /\ FeedbackSource(e, es, prefer_first_times, tp) # 0
                THEN out.values[i][FeedbackSource(e, es, prefer_first_times, tp)]
                               [PosOf(e.output_sel["varlev"], e.input_sel["varlev"][k])]
                ELSE buf.values[i][tp][k]]]]

----------------------------------------------------------------------------
(* TimeSeriesEstimator.predict: the Output Assembler                       *)

\* the time steps of each iteration that the collapsed series retains
RetainedTimeSteps(e, es, prefer_first_times) ==
    IF ~KeepInputs(e) /\ prefer_first_times THEN es ELSE e.output_time_steps

\* result.transpose((0, 2, 1, 3, 4, 5)).reshape((-1,) + result.shape[2:]) of the
\* accumulator cut to its first nt time steps
CollapseTime(acc, steps, nt) ==
    [q \in 1..(steps * nt) |->
        [i \in DOMAIN acc[1] |-> acc[((q - 1) \div nt) + 1][i][((q - 1) % nt) + 1]]]

\* forecast hours counted from 0 instead of dt
ForecastHours_FromZero(dt, steps, es, keep_time_dim) ==
    Arange(0, steps * es * dt, IF keep_time_dim THEN es * dt ELSE dt)

\* the f_hour coordinate: np.arange(dt, (steps * es + 1) * dt, es * dt or dt)
ForecastHours(dt, steps, es, keep_time_dim) ==
    Arange(dt, (steps * es + 1) * dt, IF keep_time_dim THEN es * dt ELSE dt)

\* the time coordinate: the last available time in the inputs
InitTimes(g, e) == [i \in 1..g.n_sample |-> DsSample(g)[i] + (e.input_time_steps - 1) * e.dt]

\* pd.MultiIndex.from_product((var, lev)): the first list varies slowest
FromProduct(var, lev) ==
    [q \in 1..(Len(var) * Len(lev)) |->
        <<var[((q - 1) \div Len(lev)) + 1], lev[((q - 1) % Len(lev)) + 1]>>]

\* .unstack('varlev') of one cell's channels under the index vl: an entry for
\* every pair of a variable and a level of the index, missing where vl has none
Unstack(chan, vl) ==
    [pair \in {vl[q][1] : q \in DOMAIN vl} \X {vl[q][2] : q \in DOMAIN vl} |->
        IF pair \in Range(vl) THEN chan[PosOf(vl, pair)] ELSE NaN]

\* the array predict() returns when the coordinates fit the data
Assembled(g, e, a, l, acc) ==
    LET vl == FromProduct(e.output_sel["variable"], e.output_sel["level"])
        cells(c) == IF e.uses_varlev THEN c ELSE Unstack(c, vl)
    IN  [ f_hour |-> ForecastHours(e.dt, a.steps, l.es, a.keep_time_dim),
          time |-> InitTimes(g, e),
          time_step |-> IF a.keep_time_dim
                        THEN [tp \in 1..e.output_time_steps |-> tp - 1] ELSE <<>>,
          varlev |-> IF e.uses_varlev THEN e.output_sel["varlev"] ELSE <<>>,
          variable |-> IF e.uses_varlev THEN {}
                       ELSE {vl[q][1] : q \in DOMAIN vl},
          level |-> IF e.uses_varlev THEN {}
                    ELSE {vl[q][2] : q \in DOMAIN vl},
          data |-> IF a.keep_time_dim
                   THEN [q \in DOMAIN acc |-> [i \in DOMAIN acc[q] |->
                            [tp \in DOMAIN acc[q][i] |-> cells(acc[q][i][tp])]]]
                   ELSE LET flat == CollapseTime(acc, a.steps,
                                        RetainedTimeSteps(e, l.es, a.prefer_first_times))
                        IN  [q \in DOMAIN flat |-> [i \in DOMAIN flat[q] |->
                                cells(flat[q][i])]] ]

----------------------------------------------------------------------------
(* The state of the estimator and predict()'s steps                        *)

NoArgs == [steps |-> 0, impute |-> FALSE, keep_time_dim |-> FALSE,
           prefer_first_times |-> FALSE]

NoLocals == [keep_inputs |-> FALSE, es |-> 0, in_times |-> <<>>, s |-> 0,
             p_mean |-> <<>>, error |-> "none", raised_in |-> "none"]

NoArray == [sample |-> <<>>, values |-> <<>>]

NoCall == [pc |-> "unused"]

Init ==
    /\ gen \in Generators
    /\ est = Estimator(gen)
    /\ pc = "ready"
    /\ args = NoArgs
    /\ loc = NoLocals
    /\ p_da = NoArray
    /\ r_da = NoArray
    /\ result = <<>>
    /\ calls = [generate |-> 0, predict |-> 0]
    /\ dns = NoCall
    /\ pp = NoCall

\* predict(steps, impute, keep_time_dim, prefer_first_times) up to the loop
PredictCall(steps, impute, keep_time_dim, prefer_first_times) ==
    /\ pc = "ready"
    /\ args' = [steps |-> steps, impute |-> impute, keep_time_dim |-> keep_time_dim,
                prefer_first_times |-> prefer_first_times]
    /\ IF StepsInvalid(steps)
       THEN /\ pc' = "error"
            /\ loc' = [loc EXCEPT !.error = "ValueError", !.raised_in = "steps"]
            /\ UNCHANGED <<p_da, result, calls>>
       ELSE /\ pc' = "model"
            /\ loc' = [loc EXCEPT
                        !.keep_inputs = KeepInputs(est),
                        !.es = EffectiveStep(est, prefer_first_times),
                        !.in_times = InTimes(est, prefer_first_times),
                        !.s = 0,
                        !.p_mean = IF impute THEN SampleMean(est) ELSE <<>>]
            /\ calls' = [calls EXCEPT !.generate = @ + 1]
            /\ p_da' = [sample |-> DsSample(gen), values |-> GeneratePredictors(gen, est)]
            /\ result' = EmptyResult(gen, est, steps)
    /\ UNCHANGED <<gen, est, r_da, dns, pp>>

\* result[s] = self.model.predict(...), and r_da = the prediction with metadata
ModelStep ==
    /\ pc = "model"
    /\ calls' = [calls EXCEPT !.predict = @ + 1]
    /\ result' = [result EXCEPT ![loc.s + 1] = ModelPredict(gen, est, loc.s)]
    /\ r_da' = [sample |-> OutputSample(gen, est, loc.es),
                values |-> ModelPredict(gen, est, loc.s)]
    /\ pc' = "reindex"
    /\ UNCHANGED <<gen, est, args, loc, p_da, dns, pp>>

\* p_da = p_da.reindex(sample=r_da.sample, method=None)
ReindexStep ==
    /\ pc = "reindex"
    /\ p_da' = Reindex(p_da, r_da.sample, est)
    /\ pc' = "impute"
    /\ UNCHANGED <<gen, est, args, loc, r_da, result, calls, dns, pp>>

\* if impute: the mean for the last es entries; es copies of the mean do not
\* broadcast into fewer than es entries
ImputeStep ==
    /\ pc = "impute"
    /\ IF args.impute /\ Len(p_da.values) < loc.es
       THEN /\ pc' = "error"
            /\ loc' = [loc EXCEPT !.error = "ValueError", !.raised_in = "impute"]
            /\ UNCHANGED p_da
       ELSE /\ pc' = "insolation"
            /\ p_da' = IF args.impute
                       THEN [p_da EXCEPT !.values = ImputeValues(p_da, loc.p_mean, loc.es)]
                       ELSE p_da
            /\ UNCHANGED loc
    /\ UNCHANGED <<gen, est, args, r_da, result, calls, dns, pp>>

\* if self._add_insolation: the known insolation for the added time steps
InsolationStep ==
    /\ pc = "insolation"
    /\ p_da' = IF est.add_insolation
               THEN [p_da EXCEPT !.values = InsolationValues(p_da, est, loc.es)]
               ELSE p_da
    /\ pc' = "feedback"
    /\ UNCHANGED <<gen, est, args, loc, r_da, result, calls, dns, pp>>

\* replace the predictors that exist in the result with the result; the loop
\* goes on to its next iteration or ends
FeedbackStep ==
    /\ pc = "feedback"
    /\ p_da' = [p_da EXCEPT !.values =
                    FeedbackValues(p_da, r_da, est, loc.es, args.prefer_first_times)]
    /\ loc' = [loc EXCEPT !.s = @ + 1]
    /\ pc' = IF loc.s + 1 < args.steps THEN "model" ELSE "assemble"
    /\ UNCHANGED <<gen, est, args, r_da, result, calls, dns, pp>>

\* the returned DataArray; xr.DataArray refuses coordinates that do not fit the data
AssembleStep ==
    /\ pc = "assemble"
    /\ LET out == Assembled(gen, est, args, loc, result)
       IN  IF Len(out.f_hour) = Len(out.data)
           THEN /\ pc' = "done"
                /\ result' = out
                /\ UNCHANGED loc
           ELSE /\ pc' = "error"
                /\ loc' = [loc EXCEPT !.error = "ValueError", !.raised_in = "assemble"]
                /\ UNCHANGED result
    /\ UNCHANGED <<gen, est, args, p_da, r_da, calls, dns, pp>>

Next ==
    \/ \E steps \in (-1)..MaxSteps, impute \in BOOLEAN, keep_time_dim \in BOOLEAN,
          prefer_first_times \in BOOLEAN :
            PredictCall(steps, impute, keep_time_dim, prefer_first_times)
    \/ ModelStep
    \/ ReindexStep
    \/ ImputeStep
    \/ InsolationStep
    \/ FeedbackStep
    \/ AssembleStep

Spec == Init /\ [][Next]_vars

----------------------------------------------------------------------------
(* delete_nan_samples(predictors, targets, large_fill_value, threshold)    *)
(*                                                                         *)
(* An array is [shape, data]: shape is (samples,) + trailing shape and     *)
(* data[i] is sample i flattened.  A cell is NaN, a value beyond +-1e30    *)
(* (Large) or an ordinary value <<"val", a, i, j>>.  A threshold is None   *)
(* or the fraction num/den.                                                *)

Large == <<"large">>

None == [none |-> TRUE, num |-> 0, den |-> 1]

Fraction(n, d) == [none |-> FALSE, num |-> n, den |-> d]

\* threshold is not None and not (0 <= threshold <= 1)
ThresholdInvalid(thr) == ~thr.none /\ ~(0 <= thr.num /\ thr.num <= thr.den)

RECURSIVE Product(_)
Product(shape) == IF shape = <<>> THEN 1 ELSE Head(shape) * Product(Tail(shape))

\* a[(a > 1.e30) | (a < -1.e30)] = np.nan
LargeToNan(a) ==
    [a EXCEPT !.data = [i \in DOMAIN a.data |->
        [j \in DOMAIN a.data[i] |-> IF a.data[i][j] = Large THEN NaN ELSE a.data[i][j]]]]

\* a.reshape((a.shape[0], -1)) fails on an array of size 0: the -1 cannot be inferred
FlattenFails(a) == Product(a.shape) = 0

\* only the samples whose every value is missing
NanRows_AllMissing(a) ==
    {i \in DOMAIN a.data : \A j \in DOMAIN a.data[i] : a.data[i][j] = NaN}

\* list(np.where(np.isnan(a))[0]): the samples with a missing value
NanRows(a) == {i \in DOMAIN a.data : \E j \in DOMAIN a.data[i] : a.data[i][j] = NaN}

\* np.mean(np.isnan(a), axis=1) >= threshold, as count/width >= num/den
NanFractionRows(a, thr) ==
    {i \in DOMAIN a.data :
        Cardinality({j \in DOMAIN a.data[i] : a.data[i][j] = NaN}) * thr.den
            >= thr.num * Len(a.data[i])}

\* p_ind or t_ind
BadRows(a, thr) == IF thr.none THEN NanRows(a) ELSE NanFractionRows(a, thr)

\* np.delete(a, bad_ind, axis=0)
RECURSIVE DeleteRows(_, _, _)
DeleteRows(rows, bad, i) ==
    IF i > Len(rows) THEN <<>>
    ELSE (IF i \in bad THEN <<>> ELSE <<rows[i]>>) \o DeleteRows(rows, bad, i + 1)

\* np.delete and the reshape to (remaining samples,) + trailing shape
Reduced(a, bad) ==
    [shape |-> <<Len(DeleteRows(a.data, bad, 1))>> \o Tail(a.shape),
     data |-> DeleteRows(a.data, bad, 1)]

\* What one call does: [error, predictors, targets (the caller's arrays after the
\* call: the large-fill conversion is done in place), out_p, out_t (returned)]
DeleteNanSamples(predictors, targets, large_fill_value, thr) ==
    LET p == IF large_fill_value THEN LargeToNan(predictors) ELSE predictors
        t == IF large_fill_value THEN LargeToNan(targets) ELSE targets
        bad == BadRows(p, thr) \cup BadRows(t, thr)
    IN  IF ThresholdInvalid(thr)
        THEN [error |-> "ValueError", predictors |-> predictors, targets |-> targets,
              out_p |-> <<>>, out_t |-> <<>>]
        ELSE IF FlattenFails(p) \/ FlattenFails(t)
        THEN [error |-> "ValueError", predictors |-> p, targets |-> t,
              out_p |-> <<>>, out_t |-> <<>>]
        ELSE [error |-> "none", predictors |-> p, targets |-> t,
              out_p |-> Reduced(p, bad), out_t |-> Reduced(t, bad)]

\* Bounds and inputs.
MaxSamples == 2         \* samples of the arrays passed in: 0..MaxSamples

\* the trailing shapes of the predictor and the target array
TrailingShapes == { <<<<1>>, <<1>>>>, <<<<1, 2>>, <<1>>>>, <<<<1>>, <<2>>>> }

Thresholds == { None, Fraction(0, 1), Fraction(1, 2), Fraction(1, 1),
                Fraction(-1, 2), Fraction(3, 2) }

\* the arrays of n samples and a trailing shape, tagged a ("p" or "t")
Arrays(a, n, trail) ==
    { [shape |-> <<n>> \o trail, data |-> d] :
        d \in [1..n -> [1..Product(trail) -> {"ok", "nan", "large"}]] }

\* the cells of an array: missing, large, or a value of their own
WithValues(a, arr) ==
    [arr EXCEPT !.data = [i \in DOMAIN arr.data |-> [j \in DOMAIN arr.data[i] |->
        CASE arr.data[i][j] = "nan" -> NaN
          [] arr.data[i][j] = "large" -> Large
          [] OTHER -> <<"val", a, i, j>>]]]

InitNan ==
    /\ gen = NoCall /\ est = NoCall /\ pc = "unused" /\ args = NoArgs
    /\ loc = NoLocals /\ p_da = NoArray /\ r_da = NoArray /\ result = <<>>
    /\ calls = [generate |-> 0, predict |-> 0]
    /\ pp = NoCall
    /\ \E n \in 0..MaxSamples, trail \in TrailingShapes, thr \in Thresholds,
          lfv \in BOOLEAN :
        \E p \in Arrays("p", n, trail[1]), t \in Arrays("t", n, trail[2]) :
            dns = [pc |-> "ready", applied |-> 0,
                   large_fill_value |-> lfv, threshold |-> thr,
                   predictors |-> WithValues("p", p), targets |-> WithValues("t", t),
                   arg_p |-> <<>>, arg_t |-> <<>>,
                   first_p |-> <<>>, first_t |-> <<>>,
                   error |-> "none"]

\* the first call, on the caller's arrays
DeleteNanSamplesCall ==
    /\ dns.pc = "ready"
    /\ LET r == DeleteNanSamples(dns.predictors, dns.targets,
                                 dns.large_fill_value, dns.threshold)
       IN  dns' = [dns EXCEPT
                    !.pc = IF r.error = "none" THEN "returned" ELSE "error",
                    !.error = r.error,
                    !.applied = 1,
                    !.arg_p = dns.predictors, !.arg_t = dns.targets,
                    !.predictors = IF r.error = "none" THEN r.out_p ELSE r.predictors,
                    !.targets = IF r.error = "none" THEN r.out_t ELSE r.targets,
                    !.first_p = r.out_p, !.first_t = r.out_t]
    /\ UNCHANGED <<gen, est, pc, args, loc, p_da, r_da, result, calls, pp>>

\* a second call, on what the first one returned
DeleteNanSamplesAgain ==
    /\ dns.pc = "returned"
    /\ dns.applied = 1
    /\ LET r == DeleteNanSamples(dns.predictors, dns.targets,
                                 dns.large_fill_value, dns.threshold)
       IN  dns' = [dns EXCEPT
                    !.pc = IF r.error = "none" THEN "returned" ELSE "error",
                    !.error = r.error,
                    !.applied = 2,
                    !.arg_p = dns.predictors, !.arg_t = dns.targets,
                    !.predictors = IF r.error = "none" THEN r.out_p ELSE r.predictors,
                    !.targets = IF r.error = "none" THEN r.out_t ELSE r.targets]
    /\ UNCHANGED <<gen, est, pc, args, loc, p_da, r_da, result, calls, pp>>

NextNan == DeleteNanSamplesCall \/ DeleteNanSamplesAgain

SpecNan == InitNan /\ [][NextNan]_vars

----------------------------------------------------------------------------
(* Preprocessor.data_to_samples(variables, levels, in_memory)              *)
(*                                                                         *)
(* The raw dataset holds a grid <<"raw", variable, time, level>> for each  *)
(* of its variables, times and levels.  An argument is 'all', one value or *)
(* a list of values.                                                       *)

MaxTimes == 3           \* time points of the raw dataset: 1..MaxTimes

\* list(self.raw_data.Dataset.data_vars.keys())
VarsAvailable == <<"HGT", "TMP">>

\* self.raw_data.Dataset.level.values
LevelsAvailable == <<300, 500>>

All == [kind |-> "all", value |-> <<>>]

One(x) == [kind |-> "one", value |-> <<x>>]

List(xs) == [kind |-> "list", value |-> xs]

\* the fill value that netCDF stores where nothing was written
FillValue == <<"fill">>

\* the variables or levels an argument stands for
Resolve(arg, available) == IF arg.kind = "all" THEN available ELSE arg.value

\* n_sample = len(all_dates) - 1
SampleCount(all_dates) == Len(all_dates) - 1

\* ds[var].isel(time=q).values of ds = Dataset.sel(time=all_dates, level=levels),
\* q counted from 0
DsGrid(var, q, all_dates, levels) ==
    [l \in 1..Len(levels) |-> <<"raw", var, all_dates[q + 1], levels[l]>>]

\* isel(time=s): the time index of the predictor of sample s
PredictorTime(s) == s

\* a target taken at the predictor's own time
TargetTime_Same(s) == s

\* isel(time=s+1): the time index of the target of sample s
TargetTime(s) == s + 1

\* np.full((n_sample, n_var, n_level, n_lat, n_lon), np.nan)
FullNaN(n_sample, n_var, n_level) ==
    [i \in 1..n_sample |-> [v \in 1..n_var |-> [l \in 1..n_level |-> NaN]]]

\* a[s, v, ...] = grid on an array in memory (s, v counted from 0)
SetInMemory(a, s, v, grid) == [a EXCEPT ![s + 1][v + 1] = grid]

\* The same on a netCDF variable along the unlimited 'sample' dimension, which
\* grows to hold sample s; what was never written holds the fill value.
Grown(a, s, n_var, n_level) ==
    [i \in 1..(IF Len(a) > s THEN Len(a) ELSE s + 1) |->
        IF i <= Len(a) THEN a[i]
        ELSE [v \in 1..n_var |-> [l \in 1..n_level |-> FillValue]]]

SetInFile(a, s, v, grid, n_var, n_level) ==
    [Grown(a, s, n_var, n_level) EXCEPT ![s + 1][v + 1] = grid]

\* xr.open_dataset of the written file: fill values are read as missing
ReadFile(a) ==
    [i \in DOMAIN a |-> [v \in DOMAIN a[i] |-> [l \in DOMAIN a[i][v] |->
        IF a[i][v][l] = FillValue THEN NaN ELSE a[i][v][l]]]]

Increasing(seq) == \A q \in 1..(Len(seq) - 1) : seq[q] < seq[q + 1]

\* self.raw_data.dataset_dates: the increasing lists of dates of the raw dataset
DateLists ==
    { d \in UNION { [1..n -> 1..MaxTimes] : n \in 1..MaxTimes } : Increasing(d) }

InitSamples ==
    /\ gen = NoCall /\ est = NoCall /\ pc = "unused" /\ args = NoArgs
    /\ loc = NoLocals /\ p_da = NoArray /\ r_da = NoArray /\ result = <<>>
    /\ calls = [generate |-> 0, predict |-> 0]
    /\ dns = NoCall
    /\ \E dates \in DateLists,
          loaded \in BOOLEAN, file_exists \in BOOLEAN :
        pp = [pc |-> "ready", loaded |-> loaded, file_exists |-> file_exists,
              all_dates |-> dates, in_memory |-> FALSE,
              variables |-> <<>>, levels |-> <<>>, n_sample |-> 0,
              s |-> 0, v |-> 0, predictors |-> <<>>, targets |-> <<>>,
              data |-> <<>>, error |-> "none"]

\* data_to_samples up to the loop that fills in the data
DataToSamplesCall(variables, levels, in_memory) ==
    /\ pp.pc = "ready"
    /\ IF ~pp.loaded
       THEN pp' = [pp EXCEPT !.pc = "error", !.error = "IOError: no data loaded"]
       ELSE IF ~in_memory /\ pp.file_exists
       THEN pp' = [pp EXCEPT !.pc = "error", !.error = "IOError: file exists",
                             !.in_memory = in_memory]
       ELSE LET vars_ == Resolve(variables, VarsAvailable)
                levs == Resolve(levels, LevelsAvailable)
                n == SampleCount(pp.all_dates)
            IN  pp' = [pp EXCEPT
                        !.pc = "fill", !.in_memory = in_memory,
                        !.variables = vars_, !.levels = levs, !.n_sample = n,
                        !.s = 0, !.v = 0,
                        !.file_exists = pp.file_exists \/ ~in_memory,
                        !.predictors = IF in_memory
                                       THEN FullNaN(n, Len(vars_), Len(levs)) ELSE <<>>,
                        !.targets = IF in_memory
                                    THEN FullNaN(n, Len(vars_), Len(levs)) ELSE <<>>]
    /\ UNCHANGED <<gen, est, pc, args, loc, p_da, r_da, result, calls, dns>>

\* one pass of the inner loop: variable v of sample s
FillStep ==
    /\ pp.pc = "fill"
    /\ pp.s < pp.n_sample
    /\ LET var == pp.variables[pp.v + 1]
           pred == DsGrid(var, PredictorTime(pp.s), pp.all_dates, pp.levels)
           targ == DsGrid(var, TargetTime(pp.s), pp.all_dates, pp.levels)
           last == pp.v + 1 = Len(pp.variables)
       IN  pp' = [pp EXCEPT
                    !.predictors =
                        IF pp.in_memory THEN SetInMemory(@, pp.s, pp.v, pred)
                        ELSE SetInFile(@, pp.s, pp.v, pred,
                                       Len(pp.variables), Len(pp.levels)),
                    !.targets =
                        IF pp.in_memory THEN SetInMemory(@, pp.s, pp.v, targ)
                        ELSE SetInFile(@, pp.s, pp.v, targ,
                                       Len(pp.variables), Len(pp.levels)),
                    !.v = IF last THEN 0 ELSE pp.v + 1,
                    !.s = IF last THEN pp.s + 1 ELSE pp.s]
    /\ UNCHANGED <<gen, est, pc, args, loc, p_da, r_da, result, calls, dns>>

\* after the loop: self.data, from the arrays or read back from the file
FinishSamples ==
    /\ pp.pc = "fill"
    /\ pp.s >= pp.n_sample
    /\ pp' = [pp EXCEPT
                !.pc = "done",
                !.data = IF pp.in_memory
                         THEN [predictors |-> pp.predictors, targets |-> pp.targets]
                         ELSE [predictors |-> ReadFile(pp.predictors),
                               targets |-> ReadFile(pp.targets)]]
    /\ UNCHANGED <<gen, est, pc, args, loc, p_da, r_da, result, calls, dns>>

VariableArgs == {All, One("HGT"), List(<<"TMP", "HGT">>)}

LevelArgs == {All, One(500), List(<<500, 300>>)}

NextSamples ==
    \/ \E variables \in VariableArgs, levels \in LevelArgs, in_memory \in BOOLEAN :
            DataToSamplesCall(variables, levels, in_memory)
    \/ FillStep
    \/ FinishSamples

SpecSamples == InitSamples /\ [][NextSamples]_vars

----------------------------------------------------------------------------
(* Properties of the estimator                                             *)

\* the effective step as the specification tabulates it
StatedEffectiveStep ==
    IF gen.output_time_steps <= gen.input_time_steps THEN gen.output_time_steps
    ELSE IF args.prefer_first_times THEN gen.input_time_steps
         ELSE gen.output_time_steps

C6_StepsRejected ==
    (pc # "ready" /\ args.steps < 1) =>
        /\ pc = "error"
        /\ loc.error = "ValueError"
        /\ calls.generate = 0
        /\ calls.predict = 0
        /\ result = <<>>

C6_Witness ==
    /\ pc = "error"
    /\ args.steps = 0
    /\ loc.raised_in = "steps"
    /\ calls.generate = 0

\* C7: every label of the overlap set (_outputs_in_inputs) is in the input
\* selection and in the output selection, and the overlap has no more entries
\* than the smaller of the two selections (selections name each label once).
C7_OverlapWithinBoth ==
    \A k \in DOMAIN est.outputs_in_inputs :
        /\ Range(est.outputs_in_inputs[k]) \subseteq Range(est.input_sel[k])
        /\ Range(est.outputs_in_inputs[k]) \subseteq Range(est.output_sel[k])
        /\ Len(est.outputs_in_inputs[k]) <=
              Min(Len(est.output_sel[k]),
                  Cardinality({q \in DOMAIN est.input_sel[k] :
                                  ~(k = "varlev" /\ est.input_sel[k][q] = "SOL")}))

C7_Witness ==
    /\ ~est.uses_varlev
    /\ Len(est.outputs_in_inputs["varlev"]) = 2
    /\ Len(est.output_sel["varlev"]) = 4
    /\ Len(est.outputs_in_inputs["variable"]) = 2
    /\ Len(est.outputs_in_inputs["level"]) = 1

\* C8 as stated: with keep_time_dim the forecast-hour coordinate starts at dt,
\* advances by es*dt and ends at steps*es*dt.
C8_Original ==
    (pc = "done" /\ args.keep_time_dim) =>
        /\ result.f_hour[1] = est.dt
        /\ \A q \in 1..(Len(result.f_hour) - 1) :
              result.f_hour[q + 1] - result.f_hour[q] = loc.es * est.dt
        /\ result.f_hour[Len(result.f_hour)] = args.steps * loc.es * est.dt

\* C8 amended: with keep_time_dim the forecast-hour coordinate has steps
\* entries, starts at dt, advances by es*dt and so ends at
\* ((steps-1)*es + 1)*dt, the first forecast hour of the last iteration.
C8_ForecastHours ==
    (pc = "done" /\ args.keep_time_dim) =>
        /\ Len(result.f_hour) = args.steps
        /\ result.f_hour[1] = est.dt
        /\ \A q \in 1..(Len(result.f_hour) - 1) :
              result.f_hour[q + 1] - result.f_hour[q] = loc.es * est.dt
        /\ result.f_hour[Len(result.f_hour)] = ((args.steps - 1) * loc.es + 1) * est.dt

C8_Witness ==
    /\ pc = "done"
    /\ args.keep_time_dim
    /\ loc.es = 2
    /\ args.steps = 2
    /\ est.dt = 2
    /\ result.f_hour = <<2, 6>>

\* the cells of the returned array: the channel axis at every forecast hour,
\* sample (and time step)
ResultCells ==
    IF args.keep_time_dim
    THEN {result.data[q][i][tp] :
            q \in DOMAIN result.data, i \in 1..gen.n_sample,
            tp \in 1..gen.output_time_steps}
    ELSE {result.data[q][i] : q \in DOMAIN result.data, i \in 1..gen.n_sample}

\* C9: with separate variable and level axes, the compound labels of the output
\* selection, unstacked, give exactly the pairs of a selected variable and a
\* selected level, each once, and the data of the channel at compound position
\* p lies at the pair whose label '<variable>/<level>' is label p.
C9_UnstackRoundTrip ==
    (pc = "done" /\ ~est.uses_varlev) =>
        LET pairs == Range(est.output_sel["variable"]) \X Range(est.output_sel["level"])
            labels == est.output_sel["varlev"]
        IN  /\ result.variable \X result.level = pairs
            /\ Cardinality(pairs) = Len(labels)
            /\ \A cell \in ResultCells :
                /\ DOMAIN cell = pairs
                /\ \A q \in DOMAIN labels :
                    \E pair \in pairs :
                        /\ Label(pair[1], pair[2]) = labels[q]
                        /\ cell[pair] # NaN
                        /\ cell[pair][5] = q

C9_Witness ==
    /\ pc = "done"
    /\ ~est.uses_varlev
    /\ est.output_sel["varlev"] = <<"t/850", "t/500", "z/850", "z/500">>
    /\ \E cell \in ResultCells : cell[<<"z", 850>>][5] = 3

\* C10 as stated: in every iteration the relabelled output's sample coordinates
\* are the buffer's at the start of the iteration plus es*dt, so that after
\* iteration s (0-based) the buffer's are the original ones plus (s+1)*es*dt.
C10_SampleAdvance ==
    /\ pc = "reindex" =>
        \A i \in DOMAIN r_da.sample : r_da.sample[i] = p_da.sample[i] + loc.es * est.dt
    /\ (pc \in {"model", "assemble"} /\ loc.s >= 1) =>
        \A i \in DOMAIN p_da.sample :
            p_da.sample[i] = DsSample(gen)[i] + loc.s * loc.es * est.dt

----------------------------------------------------------------------------
(* Properties of delete_nan_samples                                        *)

\* a value the call treats as missing: NaN, and a large value when
\* large_fill_value converts those first
Missing(x) == x = NaN \/ (dns.large_fill_value /\ x = Large)

\* the fraction of missing values of sample i of array a exceeds the threshold
ExceedsThreshold(a, i) ==
    Cardinality({j \in DOMAIN a.data[i] : Missing(a.data[i][j])}) * dns.threshold.den
        > dns.threshold.num * Len(a.data[i])

\* the samples of the arguments with any missing value
AnyMissing ==
    {i \in DOMAIN dns.arg_p.data :
        \/ \E j \in DOMAIN dns.arg_p.data[i] : Missing(dns.arg_p.data[i][j])
        \/ \E j \in DOMAIN dns.arg_t.data[i] : Missing(dns.arg_t.data[i][j])}

\* the returned arrays are the arguments without the samples in removed: the
\* others in their order, with their values and the trailing shapes
ReturnedWithout(removed) ==
    LET Kept(i) == i \notin removed
        keep == SelectSeq([i \in DOMAIN dns.arg_p.data |-> i], Kept)
    IN  /\ dns.predictors.shape = <<Len(keep)>> \o Tail(dns.arg_p.shape)
        /\ dns.targets.shape = <<Len(keep)>> \o Tail(dns.arg_t.shape)
        /\ DOMAIN dns.predictors.data = DOMAIN keep
        /\ DOMAIN dns.targets.data = DOMAIN keep
        /\ \A q \in DOMAIN keep :
            /\ dns.predictors.data[q] = dns.arg_p.data[keep[q]]
            /\ dns.targets.data[q] = dns.arg_t.data[keep[q]]

\* C3: with threshold None the call removes sample i if and only if a value of
\* predictors[i] or of targets[i] is missing (NaN, or beyond +-1e30 when
\* large_fill_value converts those); the same samples leave both arrays, the
\* others keep their order and values, and both arrays their trailing shape.
C3_RemovesSamplesWithMissing ==
    (dns.applied = 1 /\ dns.threshold.none /\ Len(dns.arg_p.data) > 0) =>
        /\ dns.pc = "returned"
        /\ ReturnedWithout(AnyMissing)

C3_Witness ==
    /\ dns.pc = "returned"
    /\ dns.applied = 1
    /\ dns.threshold.none
    /\ ~dns.large_fill_value
    /\ dns.arg_p.shape = <<2, 1, 2>>
    /\ dns.arg_p.data[1] = <<Large, <<"val", "p", 1, 2>>>>
    /\ dns.arg_t.data[2] = <<NaN>>
    /\ dns.predictors.shape = <<1, 1, 2>>
    /\ dns.predictors.data = <<dns.arg_p.data[1]>>
    /\ dns.targets.data = <<dns.arg_t.data[1]>>

\* C4 as stated: with a threshold t in [0,1] the call removes sample i if and
\* only if the fraction of missing values of predictors[i] or of targets[i] is
\* larger than t; a sample whose fraction equals t is kept.
C4_RemovesAboveThreshold ==
    (dns.applied = 1 /\ dns.pc = "returned" /\ ~dns.threshold.none) =>
        ReturnedWithout({i \in DOMAIN dns.arg_p.data :
            ExceedsThreshold(dns.arg_p, i) \/ ExceedsThreshold(dns.arg_t, i)})

\* C5 as stated: a second call on what the first call returned, with the same
\* threshold and large_fill_value, returns arrays equal to its arguments.
C5_Idempotent ==
    dns.applied = 2 =>
        /\ dns.pc = "returned"
        /\ dns.predictors = dns.first_p
        /\ dns.targets = dns.first_t

----------------------------------------------------------------------------
(* Properties of data_to_samples                                           *)

\* C2: on a dataset with N selected time points data_to_samples produces N-1
\* pairs, and for every i in 0..N-2 and every selected variable predictor[i]
\* is the source grid at time index i and target[i] the source grid at time
\* index i+1, in memory and streamed to the file alike (N >= 1).
C2_SamplePairs ==
    pp.pc = "done" =>
        LET n == Len(pp.all_dates)
        IN  /\ Len(pp.data.predictors) = n - 1
            /\ Len(pp.data.targets) = n - 1
            /\ \A i \in 1..(n - 1), v \in DOMAIN pp.variables, l \in DOMAIN pp.levels :
                /\ pp.data.predictors[i][v][l] =
                      <<"raw", pp.variables[v], pp.all_dates[i], pp.levels[l]>>
                /\ pp.data.targets[i][v][l] =
                      <<"raw", pp.variables[v], pp.all_dates[i + 1], pp.levels[l]>>

C2_Witness ==
    /\ pp.pc = "done"
    /\ ~pp.in_memory
    /\ pp.all_dates = <<1, 3>>
    /\ pp.variables = <<"TMP", "HGT">>
    /\ pp.levels = <<500, 300>>
    /\ pp.data.targets = << << <<<<"raw", "TMP", 3, 500>>, <<"raw", "TMP", 3, 300>>>>,
                               <<<<"raw", "HGT", 3, 500>>, <<"raw", "HGT", 3, 300>>>> >> >>

----------------------------------------------------------------------------
(* Properties of the steps of predict()'s loop                             *)

\* the entries of the rolling buffer: sample position, time position, channel
BufferEntries ==
    (DOMAIN p_da.values) \X (1..est.input_time_steps)
        \X (1..Len(est.input_sel["varlev"]))

\* the imputation step of an iteration runs to its end
Imputes == pc = "impute" /\ args.impute /\ pc' = "insolation"

\* C11 as stated: with impute, the imputation step of each iteration writes
\* the pre-loop mean to every feature at the most recent es time-step
\* positions of the buffer, for every sample, and changes no entry at any
\* other time-step position.
C11_Original ==
    [][Imputes =>
        \A x \in BufferEntries :
            p_da'.values[x[1]][x[2]][x[3]] =
                IF x[2] \in LastPositions(est.input_time_steps, loc.es)
                THEN <<"mean", x[2], x[3]>>
                ELSE p_da.values[x[1]][x[2]][x[3]]]_vars

\* C11 amended: with impute, the imputation step of each iteration writes the
\* pre-loop mean to every feature at every time step of the last es sample
\* positions of the buffer and changes no entry at any other sample position;
\* on a buffer of fewer than es samples it fails with a value error.
C11_ImputeLastSamples ==
    [][(pc = "impute" /\ args.impute) =>
        IF Len(p_da.values) < loc.es
        THEN pc' = "error" /\ loc'.error = "ValueError" /\ p_da' = p_da
        ELSE /\ pc' = "insolation"
             /\ p_da'.sample = p_da.sample
             /\ \A x \in BufferEntries :
                    p_da'.values[x[1]][x[2]][x[3]] =
                        IF x[1] \in LastPositions(Len(p_da.values), loc.es)
                        THEN <<"mean", x[2], x[3]>>
                        ELSE p_da.values[x[1]][x[2]][x[3]]]_vars

\* the mean is in the last sample at its oldest time step, and is not in the
\* first sample at its latest time step
C11_Witness ==
    /\ pc = "insolation"
    /\ args.impute
    /\ loc.es = 1
    /\ est.input_time_steps = 2
    /\ Len(p_da.values) = 3
    /\ p_da.values[3][1][1] = <<"mean", 1, 1>>
    /\ p_da.values[1][2][1] = <<"gen", est.dt, 2, 1>>

\* the feature label of a buffer entry is in the overlap set
InOverlap(x) ==
    est.input_sel["varlev"][x[3]] \in Range(est.outputs_in_inputs["varlev"])

\* the entries feedback writes: the overlap features at the last es time
\* positions in keep_inputs mode, at every time position in the discard modes
FedBack ==
    {x \in BufferEntries :
        /\ InOverlap(x)
        /\ KeepInputs(est) => x[2] \in LastPositions(est.input_time_steps, loc.es)}

\* the output time position that belongs at input time position tp: every
\* output position in keep_inputs mode, the first or the last
\* input_time_steps ones in the discard modes
OutputTimeFor(tp) ==
    IF KeepInputs(est) THEN tp - (est.input_time_steps - loc.es)
    ELSE IF args.prefer_first_times THEN tp
         ELSE tp + (est.output_time_steps - est.input_time_steps)

\* C12: within every iteration the buffer is updated in the order impute,
\* insolation, feedback, and at the end of the iteration every entry feedback
\* wrote for an overlap feature holds the model's output of that iteration,
\* not the imputed mean, also when impute is true.
C12_FeedbackLast ==
    [][/\ pc = "impute" => pc' \in {"insolation", "error"}
       /\ pc = "insolation" => pc' = "feedback"
       /\ pc = "feedback" =>
            /\ pc' \in {"model", "assemble"}
            /\ \A x \in FedBack :
                 p_da'.values[x[1]][x[2]][x[3]] =
                    <<"out", loc.s, x[1], OutputTimeFor(x[2]),
                      PosOf(est.output_sel["varlev"], est.input_sel["varlev"][x[3]])>>]_vars

\* with impute, at the end of an iteration the last sample holds the model's
\* output in an overlap feature and the mean in another feature
C12_Witness ==
    /\ pc \in {"model", "assemble"}
    /\ loc.s >= 1
    /\ args.impute
    /\ \E x \in FedBack :
        /\ x[1] = Len(p_da.values)
        /\ p_da.values[x[1]][x[2]][x[3]][1] = "out"
        /\ \E k \in 1..Len(est.input_sel["varlev"]) :
            p_da.values[x[1]][x[2]][k] = <<"mean", x[2], k>>

\* C13: the feedback step of every iteration leaves every buffer entry whose
\* feature label is not in the overlap set unchanged, the reserved SOL feature
\* included, in keep_inputs mode and in both discard modes; and such an entry
\* never holds a model-produced value, over any number of steps.
C13_FeedbackFrame ==
    /\ [](\A x \in BufferEntries :
            ~InOverlap(x) => p_da.values[x[1]][x[2]][x[3]][1] # "out")
    /\ [][pc = "feedback" =>
            /\ p_da'.sample = p_da.sample
            /\ \A x \in BufferEntries :
                 ~InOverlap(x) =>
                    p_da'.values[x[1]][x[2]][x[3]] = p_da.values[x[1]][x[2]][x[3]]]_vars

\* after the second feedback of a discard mode the last sample holds the
\* model's output in an overlap feature, the insolation in SOL and neither in
\* a third feature
C13_Witness ==
    /\ pc \in {"model", "assemble"}
    /\ loc.s = 2
    /\ ~KeepInputs(est)
    /\ est.add_insolation
    /\ \E x \in FedBack, y \in BufferEntries, z \in BufferEntries :
        /\ x[1] = Len(p_da.values) /\ y[1] = x[1] /\ z[1] = x[1]
        /\ p_da.values[x[1]][x[2]][x[3]][1] = "out"
        /\ est.input_sel["varlev"][y[3]] = "SOL"
        /\ p_da.values[y[1]][y[2]][y[3]][1] = "sol"
        /\ ~InOverlap(z)
        /\ p_da.values[z[1]][z[2]][z[3]][1] \notin {"out", "sol"}

\* C14 as stated: the re-index of each iteration is a pure relabelling: every
\* entry of the buffer is the same immediately after it as immediately before
\* it, and no entry becomes missing.
C14_Original ==
    [][pc = "reindex" =>
        /\ p_da'.values = p_da.values
        /\ \A x \in BufferEntries :
             p_da.values[x[1]][x[2]][x[3]] # NaN =>
                p_da'.values[x[1]][x[2]][x[3]] # NaN]_vars

\* C14 amended: the re-index aligns the buffer to the new sample coordinates
\* by label: each sample position holds what the buffer held before at the
\* sample of the same coordinate, and is missing in every entry where the
\* buffer had no such sample; in the first iteration this moves every sample
\* es positions towards the front and leaves the last es positions missing.
C14_ReindexAligns ==
    [][pc = "reindex" =>
        /\ p_da'.sample = r_da.sample
        /\ \A x \in BufferEntries :
             p_da'.values[x[1]][x[2]][x[3]] =
                IF \E j \in DOMAIN p_da.sample : p_da.sample[j] = r_da.sample[x[1]]
                THEN p_da.values[CHOOSE j \in DOMAIN p_da.sample :
                                    p_da.sample[j] = r_da.sample[x[1]]][x[2]][x[3]]
                ELSE NaN
        /\ loc.s = 0 =>
             \A x \in BufferEntries :
                p_da'.values[x[1]][x[2]][x[3]] =
                    IF x[1] + loc.es <= Len(p_da.values)
                    THEN p_da.values[x[1] + loc.es][x[2]][x[3]]
                    ELSE NaN]_vars

\* after the first re-index of three samples by one step the first position
\* holds the data of the second sample and the last position is missing
C14_Witness ==
    /\ pc = "impute"
    /\ loc.s = 0
    /\ loc.es = 1
    /\ Len(p_da.values) = 3
    /\ p_da.sample = <<est.dt, 2 * est.dt, 3 * est.dt>>
    /\ p_da.values[1][1][1] = <<"gen", est.dt, 1, 1>>
    /\ p_da.values[3][1][1] = NaN

====
